---- MODULE Spec2Model ----
(***************************************************************************)
(* Model of backend/schemas/saidify_keri.py: the batch runner (main), the  *)
(* rewrite of one schema file (saidify_file) and the SAID computation      *)
(* (compute_said, which delegates to keripy's Schemer).                    *)
(*                                                                         *)
(* Strings that the program takes apart character by character (the file   *)
(* stems, from which main derives constant names) are sequences of         *)
(* one-character strings.  JSON objects are functions from key to a value  *)
(* [t |-> <json type>, v |-> <text of the value>].                         *)
(***************************************************************************)
EXTENDS Naturals, Sequences, FiniteSets, TLC

VARIABLES
    libRaises,      \* the titles on which keripy's Schemer raises
    files,          \* main's list of files, in processing order
    storage,        \* path -> content of the file at that path
    pc,             \* position of the process
    i,              \* index in files of the file being processed (1-based)
    schema,         \* saidify_file's local `schema`, while it writes
    old_id,         \* saidify_file's local `old_id`, while it writes
    new_id,         \* saidify_file's local `new_id`, while it writes
    results,        \* main's dict `results`: stem -> SAID
    out,            \* what the run printed per processed file, in order
    summary,        \* the "SAIDs for code" section: constant name -> SAID
    before,         \* content of the current file when saidify_file opened it
    writes,         \* number of open(filepath, 'w') calls of the current run
    seen            \* what a concurrent reader last read from the current file

vars == <<libRaises, files, storage, pc, i, schema, old_id,
          new_id, results, out, summary, before, writes, seen>>

\* ------------------------------------------------------------------ bounds

\* Longest list of files given to one run of main.
MaxFiles == 3

\* ------------------------------------------------------------ JSON values

Str(s) == [t |-> "str", v |-> s]
Num(s) == [t |-> "num", v |-> s]

Titles == {"Foo", "Bar"}

\* The empty mapping; also the `schema` of a run that is not writing.
NoDoc == [k \in {} |-> Str("")]

\* dict.pop(key, None) on a copy: the mapping without the key.
Pop(d, key) == [k \in DOMAIN d \ {key} |-> d[k]]

\* d[key] = value on a dict.
SetItem(d, key, value) == [k \in DOMAIN d \cup {key} |-> IF k = key THEN value ELSE d[k]]

\* --------------------------------------------------------------- keripy

\* The serialization keripy digests: the fields of the mapping it is given,
\* in a fixed order, each with its value.
Ser(sed) ==
    (IF "$id" \in DOMAIN sed THEN "$id=" \o sed["$id"].t \o ":" \o sed["$id"].v \o ";" ELSE "")
    \o (IF "title" \in DOMAIN sed THEN "title=" \o sed["title"].t \o ":" \o sed["title"].v ELSE "")

\* scheming.Schemer(sed=...).said: the derivation code followed by the digest
\* of the serialization (the digest is modelled as collision free).
Schemer_said(sed) == "E" \o Ser(sed)

\* Whether scheming.Schemer(sed=...) raises on this mapping.
Schemer_raises(sed) == "title" \in DOMAIN sed /\ sed["title"].v \in libRaises

\* ---------------------------------------------------------- compute_said

compute_said_nopop(schema_dict) == Schemer_said(schema_dict)

compute_said(schema_dict) == Schemer_said(Pop(schema_dict, "$id"))

compute_raises_typed(schema_dict) ==
    \/ Schemer_raises(Pop(schema_dict, "$id"))
    \/ ("$id" \in DOMAIN schema_dict /\ schema_dict["$id"].t # "str")

\* compute_said raises exactly when the Schemer does, on the copy without $id.
compute_raises(schema_dict) == Schemer_raises(Pop(schema_dict, "$id"))

\* --------------------------------------------------------------- storage

Content(kind, fmt, doc) == [kind |-> kind, fmt |-> fmt, doc |-> doc]

Missing   == Content("missing", "", NoDoc)    \* no file at the path
Malformed == Content("malformed", "", NoDoc)  \* text that is not JSON
NonDict   == Content("nondict", "", NoDoc)    \* JSON, but not an object
\* A file being written: a prefix of the new text that stops short of the end
\* of the JSON object (zero bytes right after open(filepath, 'w')).
Truncated == Content("truncated", "", NoDoc)
NoContent == Content("none", "", NoDoc)       \* nothing read (not a file content)

\* A file holding a JSON object; fmt is the layout of its text.
Json(fmt, doc) == Content("json", fmt, doc)

\* json.dump(schema, f, indent=4) followed by f.write('\n'), completed.
Dumped(doc) == Json("indent4", doc)

IdValues == {Str(compute_said([title |-> Str(t)])) : t \in Titles} \cup {Num("7")}

Docs ==
    {[title |-> Str(t)] : t \in Titles}
    \cup {SetItem([title |-> Str(t)], "$id", v) : t \in Titles, v \in IdValues}

InitContents == {Missing, Malformed, NonDict} \cup {Json("compact", d) : d \in Docs}

\* The exception open() and json.load() and schema.get() raise on a content,
\* "" when they raise none.
LoadError(c) ==
    CASE c.kind = "missing" -> "NotFound"
      [] c.kind \in {"malformed", "truncated"} -> "ParseError"
      [] c.kind = "nondict" -> "AttributeError"
      [] OTHER -> ""

\* schema.get('$id', '(none)')
get_old_id(doc) == IF "$id" \in DOMAIN doc THEN doc["$id"] ELSE Str("(none)")

ids_equal_never(old, new) == FALSE

\* old_id == new_id, a Python value against a str.
ids_equal(old, new) == old.t = "str" /\ old.v = new

updated_schema_stale(doc, new) == doc

updated_schema_only_id(doc, new) == [k \in {"$id"} |-> Str(new)]

\* schema['$id'] = new_id
updated_schema(doc, new) == SetItem(doc, "$id", Str(new))

\* ------------------------------------------------------ str operations

RECURSIVE StartsWith(_, _)
StartsWith(s, pre) ==
    IF pre = <<>> THEN TRUE
    ELSE IF s = <<>> THEN FALSE
    ELSE Head(s) = Head(pre) /\ StartsWith(Tail(s), Tail(pre))

RECURSIVE Drop(_, _)
Drop(s, n) == IF n = 0 THEN s ELSE Drop(Tail(s), n - 1)

\* str.replace(old, new) for a non-empty old: every occurrence, leftmost
\* first, not overlapping.
RECURSIVE Replace(_, _, _)
Replace(s, old, new) ==
    IF s = <<>> THEN <<>>
    ELSE IF StartsWith(s, old) THEN new \o Replace(Drop(s, Len(old)), old, new)
    ELSE <<Head(s)>> \o Replace(Tail(s), old, new)

\* sub in s
RECURSIVE Contains(_, _)
Contains(s, sub) ==
    IF StartsWith(s, sub) THEN TRUE
    ELSE IF s = <<>> THEN FALSE
    ELSE Contains(Tail(s), sub)

LowerCase == <<"a", "b", "c", "d", "e", "f", "g", "h", "i", "j", "k", "l", "m",
               "n", "o", "p", "q", "r", "s", "t", "u", "v", "w", "x", "y", "z">>
UpperCase == <<"A", "B", "C", "D", "E", "F", "G", "H", "I", "J", "K", "L", "M",
               "N", "O", "P", "Q", "R", "S", "T", "U", "V", "W", "X", "Y", "Z">>

UpperChar(c) ==
    IF \E k \in 1..Len(LowerCase) : LowerCase[k] = c
    THEN UpperCase[CHOOSE k \in 1..Len(LowerCase) : LowerCase[k] = c]
    ELSE c

\* str.upper()
Upper(s) == [k \in 1..Len(s) |-> UpperChar(s[k])]

MatouPrefix  == <<"m", "a", "t", "o", "u", "-">>
SchemaMarker == <<"_", "S", "C", "H", "E", "M", "A">>
SaidSuffix   == <<"_", "S", "A", "I", "D">>

\* The constant name main prints for a stem.
const_name(name) ==
    LET upper == Upper(Replace(Replace(name, MatouPrefix, <<>>), <<"-">>, <<"_">>))
    IN  IF ~Contains(upper, SchemaMarker)
        THEN upper \o SaidSuffix
        ELSE Replace(upper, SchemaMarker, SchemaMarker \o SaidSuffix)

\* ------------------------------------------------------------------ inputs

Foo    == <<"f", "o", "o">>
Schema == <<"e", "n", "d", "o", "r", "s", "e", "m", "e", "n", "t", "-",
            "s", "c", "h", "e", "m", "a">>

Path(dir, stem) == [dir |-> dir, stem |-> stem]

\* The files a run may be given: two of the same stem in different
\* directories, and one of another stem.
PathList == <<Path("a", MatouPrefix \o Foo),
              Path("b", MatouPrefix \o Foo),
              Path("a", MatouPrefix \o Schema)>>

Range(f) == {f[k] : k \in DOMAIN f}

Paths == Range(PathList)

\* The lists of at most MaxFiles files, in the order of PathList (the order
\* sorted() gives main under --all); a file may be listed more than once.
Batches ==
    UNION {{[k \in 1..n |-> PathList[idx[k]]] :
              idx \in {x \in [1..n -> 1..Len(PathList)] :
                         \A k \in 1..n : k < n => x[k] <= x[k + 1]}} :
           n \in 0..MaxFiles}

\* ----------------------------------------------------------------- main

\* The exceptions of the model; all are subclasses of Exception.
Exceptions == {"NotFound", "ParseError", "AttributeError", "ComputeError", "WriteError"}

caught_not_load(exc) == exc \in Exceptions \ {"NotFound", "ParseError"}

caught_not_compute(exc) == exc \in Exceptions \ {"ComputeError"}

\* except Exception as e
caught(exc) == exc \in Exceptions

NoResults == [n \in {} |-> ""]

\* The titles of the schemas a storage holds.
TitlesIn(st) == {st[p].doc["title"].v : p \in {q \in DOMAIN st : st[q].kind = "json"}}

\* The state when the script starts, for a list of files and a storage.  The
\* Schemer's behaviour is fixed for the run; only its behaviour on the schemas
\* the storage holds can show.
Start(fs, st) ==
    /\ files = fs
    /\ storage = st
    /\ libRaises \in SUBSET TitlesIn(st)
    /\ pc = "import"
    /\ i = 1
    /\ schema = NoDoc
    /\ old_id = Str("")
    /\ new_id = ""
    /\ results = NoResults
    /\ out = <<>>
    /\ summary = <<>>
    /\ before = NoContent
    /\ writes = 0
    /\ seen = NoContent

Init ==
    \E fs \in Batches :
        \E g \in [Range(fs) -> InitContents] :
            Start(fs, [p \in Paths |-> IF p \in Range(fs) THEN g[p] ELSE Missing])

\* Lines 18-19 and 66-83: keripy is importable; main builds its list of files
\* and starts the loop (with no file at all it prints the help or an empty run).
ImportKeri ==
    /\ pc = "import"
    /\ pc' = IF files = <<>> THEN "summary" ELSE "load"
    /\ UNCHANGED <<libRaises, files, storage, i, schema, old_id,
                   new_id, results, out, summary, before, writes, seen>>

\* Lines 20-24: keripy is not installed; the script prints how to get it and
\* exits with status 1 before main runs.
ImportError ==
    /\ pc = "import"
    /\ pc' = "exit1"
    /\ UNCHANGED <<libRaises, files, storage, i, schema, old_id,
                   new_id, results, out, summary, before, writes, seen>>

\* One line of the run's output for a processed file.
Entry(path, outcome, err, old, said, bef, aft, w) ==
    [path |-> path, outcome |-> outcome, err |-> err, old |-> old, said |-> said,
     before |-> bef, after |-> aft, writes |-> w]

\* saidify_file returned or raised: main records it and moves to the next file.
\* An exception main does not catch ends the process with a traceback.
Finish(entry) ==
    /\ out' = Append(out, entry)
    /\ IF entry.outcome = "error"
       THEN /\ results' = results
            /\ IF caught(entry.err)
               THEN /\ i' = i + 1
                    /\ pc' = IF i + 1 > Len(files) THEN "summary" ELSE "load"
               ELSE /\ i' = i
                    /\ pc' = "crashed"
       ELSE /\ results' = [n \in DOMAIN results \cup {entry.path.stem} |->
                              IF n = entry.path.stem THEN entry.said ELSE results[n]]
            /\ i' = i + 1
            /\ pc' = IF i + 1 > Len(files) THEN "summary" ELSE "load"
    /\ schema' = NoDoc
    /\ old_id' = Str("")
    /\ new_id' = ""
    /\ before' = NoContent
    /\ writes' = 0
    /\ seen' = NoContent

\* ---------------------------------------------------------- saidify_file

\* The file being processed and what it holds.
CurPath == files[i]
CurContent == storage[CurPath]

\* Lines 42-45 raise: the file is missing, is not JSON, or is not an object.
LoadFail ==
    /\ pc = "load"
    /\ LoadError(CurContent) # ""
    /\ Finish(Entry(CurPath, "error", LoadError(CurContent), Str(""), "",
                    CurContent, CurContent, 0))
    /\ UNCHANGED <<libRaises, files, storage, summary>>

\* Line 48 raises: the Schemer rejects the schema.
ComputeFail ==
    /\ pc = "load"
    /\ LoadError(CurContent) = ""
    /\ compute_raises(CurContent.doc)
    /\ Finish(Entry(CurPath, "error", "ComputeError", get_old_id(CurContent.doc), "",
                    CurContent, CurContent, 0))
    /\ UNCHANGED <<libRaises, files, storage, summary>>

\* Lines 42-54 and 63: the stored $id is the computed SAID; nothing is written.
NoChange ==
    /\ pc = "load"
    /\ LoadError(CurContent) = ""
    /\ ~compute_raises(CurContent.doc)
    /\ ids_equal(get_old_id(CurContent.doc), compute_said(CurContent.doc))
    /\ Finish(Entry(CurPath, "nochange", "", get_old_id(CurContent.doc),
                    compute_said(CurContent.doc), CurContent, CurContent, 0))
    /\ UNCHANGED <<libRaises, files, storage, summary>>

\* Lines 42-57: the stored $id differs; the in-memory schema gets the new $id.
StartRewrite ==
    /\ pc = "load"
    /\ LoadError(CurContent) = ""
    /\ ~compute_raises(CurContent.doc)
    /\ ~ids_equal(get_old_id(CurContent.doc), compute_said(CurContent.doc))
    /\ old_id' = get_old_id(CurContent.doc)
    /\ new_id' = compute_said(CurContent.doc)
    /\ schema' = updated_schema(CurContent.doc, compute_said(CurContent.doc))
    /\ before' = CurContent
    /\ pc' = "open"
    /\ UNCHANGED <<libRaises, files, storage, i, results, out,
                   summary, writes, seen>>

\* Line 58: open(filepath, 'w') truncates the file.
OpenWrite ==
    /\ pc = "open"
    /\ storage' = [storage EXCEPT ![CurPath] = Truncated]
    /\ writes' = writes + 1
    /\ pc' = "dump"
    /\ UNCHANGED <<libRaises, files, i, schema, old_id, new_id,
                   results, out, summary, before, seen>>

\* Line 58 raises (the file cannot be opened for writing): nothing is truncated.
OpenFail ==
    /\ pc = "open"
    /\ Finish(Entry(CurPath, "error", "WriteError", old_id, "", before, CurContent, writes))
    /\ UNCHANGED <<libRaises, files, storage, summary>>

\* Lines 59-63: the dump and the newline are written, the file is closed,
\* saidify_file returns new_id.
DumpClose ==
    /\ pc = "dump"
    /\ storage' = [storage EXCEPT ![CurPath] = Dumped(schema)]
    /\ Finish(Entry(CurPath, "updated", "", old_id, new_id, before, Dumped(schema), writes))
    /\ UNCHANGED <<libRaises, files, summary>>

\* Lines 59-60 raise (the device is full, an I/O error): the file keeps what
\* had reached it.
DumpFail ==
    /\ pc = "dump"
    /\ Finish(Entry(CurPath, "error", "WriteError", old_id, "", before, CurContent, writes))
    /\ UNCHANGED <<libRaises, files, storage, summary>>

\* Another process reads the file while saidify_file has it open for writing.
Read ==
    /\ pc = "dump"
    /\ seen # CurContent
    /\ seen' = CurContent
    /\ UNCHANGED <<libRaises, files, storage, pc, i, schema, old_id,
                   new_id, results, out, summary, before, writes>>

\* Lines 90-98: one constant per key of results.
Summary ==
    /\ pc = "summary"
    /\ summary' = [n \in DOMAIN results |-> <<const_name(n), results[n]>>]
    /\ pc' = "done"
    /\ UNCHANGED <<libRaises, files, storage, i, schema, old_id,
                   new_id, results, out, before, writes, seen>>

Next ==
    \/ ImportKeri
    \/ ImportError
    \/ LoadFail
    \/ ComputeFail
    \/ NoChange
    \/ StartRewrite
    \/ OpenWrite
    \/ OpenFail
    \/ DumpClose
    \/ DumpFail
    \/ Read
    \/ Summary

Spec == Init /\ [][Next]_vars

\* ------------------------------------------------- stems built from parts

\* Most parts a stem is built from.
MaxTokens == 3

Tokens == {MatouPrefix, Foo, <<"-", "s", "c", "h", "e", "m", "a">>, <<"x">>}

RECURSIVE Concat(_)
Concat(ts) == IF ts = <<>> THEN <<>> ELSE Head(ts) \o Concat(Tail(ts))

Stems == UNION {{Concat(ts) : ts \in [1..n -> Tokens]} : n \in 1..MaxTokens}

\* A run on one file, whose stem is any of Stems.
InitNames ==
    \E stem \in Stems :
        \E c \in InitContents :
            Start(<<Path("a", stem)>>, [p \in {Path("a", stem)} |-> c])

SpecNames == InitNames /\ [][Next]_vars

\* ------------------------------------------------------------ properties

Entries == 1..Len(out)

Ok(e) == e.outcome \in {"nochange", "updated"}

\* A content holds a schema whose $id is the SAID of the schema.
IdCurrent(c) ==
    /\ c.kind = "json"
    /\ ~compute_raises(c.doc)
    /\ "$id" \in DOMAIN c.doc
    /\ c.doc["$id"] = Str(compute_said(c.doc))

\* A content holds a schema whose $id is not a string.
IdNotString(c) ==
    /\ c.kind = "json"
    /\ "$id" \in DOMAIN c.doc
    /\ c.doc["$id"].t # "str"

Rewriting == pc \in {"open", "dump"}

\* C1: a run of saidify_file on a file whose $id already is the SAID of its
\* content ends with "no change": it never starts a rewrite, opens the file
\* for writing zero times, and leaves the file's content as it was.
C1_NoChangeWhenIdCurrent ==
    /\ Rewriting => ~IdCurrent(before)
    /\ \A k \in Entries :
          IdCurrent(out[k].before) =>
              /\ out[k].outcome = "nochange"
              /\ out[k].writes = 0
              /\ out[k].after = out[k].before

C1_Witness ==
    \E k \in Entries :
        /\ IdCurrent(out[k].before)
        /\ out[k].before.fmt = "compact"
        /\ out[k].outcome = "nochange"
        /\ storage[out[k].path] = out[k].before

\* C2: the rewrite is atomic: while saidify_file rewrites a file, the file
\* holds, and a concurrent reader reads, either the complete content from
\* before the run or the complete new content; and after a run that failed,
\* the file holds the content from before the run.
C2_AtomicRewrite ==
    /\ Rewriting =>
          /\ CurContent \in {before, Dumped(schema)}
          /\ seen \in {NoContent, before, Dumped(schema)}
    /\ \A k \in Entries :
          out[k].outcome = "error" => out[k].after = out[k].before

\* C3: a NotFound or ParseError of one file is printed and the loop goes on:
\* main never ends on an exception, every file before the current one has its
\* line of output, in order, a missing file's line is NotFound and a malformed
\* file's line is ParseError, and when main is done every file of the list has
\* been processed.
C3_PerDocumentIsolation ==
    /\ pc # "crashed"
    /\ Len(out) = (IF pc \in {"import", "exit1"} THEN 0
                   ELSE IF pc \in {"summary", "done"} THEN Len(files)
                   ELSE i - 1)
    /\ \A k \in Entries :
          /\ out[k].path = files[k]
          /\ out[k].before.kind = "missing" =>
                (out[k].outcome = "error" /\ out[k].err = "NotFound")
          /\ out[k].before.kind = "malformed" =>
                (out[k].outcome = "error" /\ out[k].err = "ParseError")
          /\ out[k].outcome = "error" => out[k].said = ""
          /\ Ok(out[k]) => out[k].said = compute_said(out[k].before.doc)

\* Three different files, exactly one of them malformed, two SAIDs and one
\* ParseError, and main is done.
C3_Witness ==
    /\ pc = "done"
    /\ Len(files) = 3
    /\ Cardinality(Range(files)) = 3
    /\ Cardinality({k \in Entries : out[k].before.kind = "malformed"}) = 1
    /\ Cardinality({k \in Entries : out[k].err = "ParseError"}) = 1
    /\ Cardinality({k \in Entries : Ok(out[k]) /\ out[k].said # ""}) = 2
    /\ \E k \in Entries : out[k].err = "ParseError" /\ k < 3

\* C4: when main is done every file of the list has been reported and none
\* is dropped: a file that failed has its error line, and a file that got a
\* SAID has a line of its own in the final summary, carrying that SAID; so
\* the summary has as many lines as there are files that got a SAID.
C4_ReportComplete ==
    pc = "done" =>
        /\ Len(out) = Len(files)
        /\ \A k \in Entries :
              /\ out[k].path = files[k]
              /\ out[k].outcome = "error" => out[k].err # ""
              /\ Ok(out[k]) =>
                    /\ out[k].path.stem \in DOMAIN summary
                    /\ summary[out[k].path.stem][2] = out[k].said
        /\ Cardinality(DOMAIN summary) =
              Cardinality({out[k].path : k \in {j \in Entries : Ok(out[j])}})

\* C5 as stated: an error raised while the SAID is computed ends the run; no
\* file after the failing one is processed.
C5_ComputeErrorIsFatal ==
    \A j \in Entries : \A k \in Entries :
        j < k => out[j].err # "ComputeError"

\* C5 as amended: an error raised while the SAID is computed is caught like
\* any other: main does not end on it, the failing file is not written and
\* gets no SAID, and when main is done every file of the list has been
\* processed.  Only a failed import ends the run, before any file is touched.
C5_ComputeErrorIsCaught ==
    /\ pc # "crashed"
    /\ pc = "exit1" => out = <<>>
    /\ pc = "done" => Len(out) = Len(files)
    /\ \A k \in Entries :
          out[k].err = "ComputeError" =>
              /\ out[k].after = out[k].before
              /\ out[k].writes = 0
              /\ out[k].said = ""
              /\ (k < Len(files) => pc \in {"load", "open", "dump", "summary", "done"})

C5_Witness ==
    \E j \in Entries : \E k \in Entries :
        /\ j < k
        /\ out[j].err = "ComputeError"
        /\ out[k].outcome = "updated"
        /\ storage[out[k].path] = out[k].after

\* C6 as stated: a schema whose $id is not a string makes the computation
\* fail: no rewrite is started for it, its line of output is an error without
\* a SAID, and its file is left as it was.
C6_NonStringIdRejected ==
    /\ Rewriting => ~IdNotString(before)
    /\ \A k \in Entries :
          IdNotString(out[k].before) =>
              /\ out[k].outcome = "error"
              /\ out[k].said = ""
              /\ out[k].after = out[k].before

\* C6 as amended: a $id that is not a string is treated as a stale one.  If
\* the Schemer accepts the schema, the run never ends with "no change" nor
\* with a computation error: it rewrites the file with $id set to the SAID of
\* the other fields and reports that SAID, unless the write itself fails.
C6_NonStringIdOverwritten ==
    \A k \in Entries :
        (/\ IdNotString(out[k].before)
         /\ ~Schemer_raises(Pop(out[k].before.doc, "$id"))) =>
            \/ /\ out[k].outcome = "updated"
               /\ out[k].said = compute_said(out[k].before.doc)
               /\ out[k].after =
                     Dumped(SetItem(out[k].before.doc, "$id", Str(out[k].said)))
               /\ results[out[k].path.stem] \in {out[j].said : j \in k..Len(out)}
            \/ /\ out[k].outcome = "error"
               /\ out[k].err = "WriteError"

C6_Witness ==
    \E k \in Entries : \E j \in Entries :
        /\ IdNotString(out[k].before)
        /\ out[k].outcome = "updated"
        /\ out[k].after.doc["$id"].t = "str"
        /\ k < j

\* C7: two schemas that agree on every field other than $id get the same SAID.
C7_SelfExclusion ==
    \A j \in Entries : \A k \in Entries :
        (/\ Ok(out[j])
         /\ Ok(out[k])
         /\ Pop(out[j].before.doc, "$id") = Pop(out[k].before.doc, "$id"))
        => out[j].said = out[k].said

C7_Witness ==
    \E j \in Entries : \E k \in Entries :
        /\ Ok(out[j])
        /\ Ok(out[k])
        /\ out[j].path # out[k].path
        /\ "$id" \notin DOMAIN out[j].before.doc
        /\ "$id" \in DOMAIN out[k].before.doc
        /\ Pop(out[j].before.doc, "$id") = Pop(out[k].before.doc, "$id")
        /\ out[j].said = out[k].said

\* C8: after a run of saidify_file that returned, the stored $id is the SAID
\* of the stored schema, and it is the SAID the run reported; a run on the
\* same file right after it reports the same SAID and "no change", and never
\* starts a rewrite.
C8_Convergence ==
    /\ (Rewriting /\ i > 1 /\ files[i - 1] = files[i]) => ~Ok(out[i - 1])
    /\ \A k \in Entries :
          Ok(out[k]) =>
              /\ out[k].after.kind = "json"
              /\ "$id" \in DOMAIN out[k].after.doc
              /\ out[k].after.doc["$id"] = Str(compute_said(out[k].after.doc))
              /\ out[k].after.doc["$id"] = Str(out[k].said)
              /\ (k + 1 \in Entries /\ files[k + 1] = files[k]) =>
                    /\ out[k + 1].outcome = "nochange"
                    /\ out[k + 1].said = out[k].said
                    /\ out[k + 1].writes = 0
                    /\ out[k + 1].after = out[k].after

C8_Witness ==
    \E k \in Entries :
        /\ k + 1 \in Entries
        /\ files[k + 1] = files[k]
        /\ out[k].outcome = "updated"
        /\ out[k].old # Str("(none)")
        /\ out[k + 1].outcome = "nochange"
        /\ out[k + 1].said = out[k].said

\* The rule of C9: strip "matou-" from the start of the name, replace each
\* "-" by "_", uppercase, then append "_SAID" if there is no "_SCHEMA" in the
\* result and else insert "_SAID" after the "_SCHEMA".
claimed_const_name(name) ==
    LET stripped == IF StartsWith(name, MatouPrefix) THEN Drop(name, Len(MatouPrefix)) ELSE name
        upper == Upper(Replace(stripped, <<"-">>, <<"_">>))
    IN  IF ~Contains(upper, SchemaMarker)
        THEN upper \o SaidSuffix
        ELSE Replace(upper, SchemaMarker, SchemaMarker \o SaidSuffix)

\* C9: the constant name the summary gives for a stem is the one the rule
\* of C9 gives.
C9_ConstNameRule ==
    \A n \in DOMAIN summary : summary[n][1] = claimed_const_name(n)

\* C10: a run of saidify_file that ends with "no change", with a rewrite, or
\* with an error of loading or of computing leaves every field other than $id
\* as it was (and a file that holds no schema as it was); it opens the file
\* for writing at most once, and only when the old $id differs from the SAID.
C10_OnlyIdChanges ==
    /\ writes <= 1
    /\ writes = 1 => (pc = "dump" /\ ~ids_equal(old_id, new_id))
    /\ \A k \in Entries :
          out[k].err # "WriteError" =>
              /\ out[k].before.kind # "json" => out[k].after = out[k].before
              /\ out[k].before.kind = "json" =>
                    /\ out[k].after.kind = "json"
                    /\ Pop(out[k].after.doc, "$id") = Pop(out[k].before.doc, "$id")
              /\ out[k].writes <= 1
              /\ out[k].writes = 1 =>
                    (out[k].outcome = "updated" /\ ~ids_equal(out[k].old, out[k].said))
              /\ out[k].outcome # "updated" => out[k].writes = 0

C10_Witness ==
    \E k \in Entries :
        /\ out[k].outcome = "updated"
        /\ out[k].writes = 1
        /\ out[k].after.doc # out[k].before.doc
        /\ out[k].after.doc["title"] = out[k].before.doc["title"]
        /\ storage[out[k].path] = out[k].after

====
